---------------------------- MODULE Spec2Model ----------------------------
(***************************************************************************)
(* read-process-memory (src/lib.rs): reading a range of another process'   *)
(* memory through one of four platform backends.                            *)
(*                                                                          *)
(* The program state is the set of ProcessHandle values built so far, the   *)
(* Windows Arc/kernel-handle bookkeeping, and, per calling thread, the      *)
(* position of its copy_address call together with its locals.  The         *)
(* operating system is the environment: the set of live processes, the      *)
(* mapped part of the target's address space, the FreeBSD trace lock and    *)
(* the Linux descriptor table.                                              *)
(***************************************************************************)
EXTENDS Integers, Sequences, FiniteSets, TLC

(* ----------------------------- bounds --------------------------------- *)
\* longest read requested (PageSize < MaxLen: a read can span pages)
MaxLen == 3
\* number of ProcessHandle objects the program may construct or clone
MaxHandles == 2
\* bytes per page of the target address space
PageSize == 2
\* pages the target maps: its addresses [0, MappedPages * PageSize)
MappedPages == 2

Threads == {1, 2}
\* SelfPid is the calling process (getpid()), ChildPid the spawned child
\* (child.id()).
SelfPid == 1
ChildPid == 2
Pids == {SelfPid, ChildPid}
OSes == {"linux", "macos", "freebsd", "windows"}
HandleIds == 1..MaxHandles
\* Addresses read from: the first page, the last mapped page, and the first
\* unmapped one.
StartAddrs == {0, PageSize * (MappedPages - 1), PageSize * MappedPages}
\* Lengths read: nothing, less than a page, and more than a page.
Lens == {0, 1, MaxLen}

(* ------------------------- target memory ------------------------------ *)
\* The byte the process pid holds at address a (never 0, so that a byte
\* left from vec![0; length] differs from every byte read).
Mem(pid, a) == ((pid * 16 + a) % 255) + 1

Min(a, b) == IF a <= b THEN a ELSE b

\* Number of leading bytes of [addr, addr+len) the target maps.
MappedPrefix(addr, len) ==
    IF addr >= MappedPages * PageSize THEN 0
    ELSE Min(len, MappedPages * PageSize - addr)

\* buf after the kernel transferred n bytes of pid's memory at addr into it.
Fill(buf, n, pid, addr) ==
    [i \in 1..Len(buf) |-> IF i <= n THEN Mem(pid, addr + i - 1) ELSE buf[i]]

\* vec![0; length]
NewVec(length) == [i \in 1..length |-> 0]

VARIABLES os, procs, env, req, tracer, stopped, hs, arcs, kopen, kcloses,
          child, call, fds

vars == <<os, procs, env, req, tracer, stopped, hs, arcs, kopen, kcloses,
          child, call, fds>>


(* --------------------------- environment ------------------------------ *)
\* The fixed part of the operating system's state.
\*   vmrv    : what process_vm_readv does on this kernel ("ok", or the errno
\*             it fails with before looking at its arguments)
\*   procmem : whether /proc/<pid>/mem may be opened
\*   seek    : whether the lseek on the opened /proc/<pid>/mem succeeds
\*   perm    : whether task_for_pid is permitted
\*   intr    : whether a signal interrupts the blocking waitpid
\*   ext     : who traces the child before any read: nobody, the calling
\*             process itself ("self", attached outside copy_address), or
\*             another tool ("foreign")
EnvsOf(o) ==
    {e \in [vmrv    : IF o = "linux" THEN {"ok", "ENOSYS", "EPERM"} ELSE {"ok"},
            procmem : IF o = "linux" THEN BOOLEAN ELSE {TRUE},
            seek    : IF o = "linux" THEN BOOLEAN ELSE {TRUE},
            perm    : IF o = "macos" THEN BOOLEAN ELSE {TRUE},
            intr    : IF o = "freebsd" THEN BOOLEAN ELSE {FALSE},
            ext     : IF o = "freebsd" THEN {"none", "self", "foreign"}
                      ELSE {"none"}] :
        /\ e.vmrv = "ok" => e.procmem
        /\ e.vmrv = "ok" \/ ~e.procmem => e.seek
        /\ e.intr => e.ext = "none"}

(* --------------------------- Windows kernel --------------------------- *)
\* Raw handle values.  0 is the null handle OpenProcess returns on failure;
\* the handle opened for slot h has the value h; the spawned Child owns
\* ChildRaw.
NullHandle == 0
ChildRaw == MaxHandles + 1
Raws == 1..(MaxHandles + 1)

\* A ProcessHandle slot: st is "none" (not built), "ok", "err" (the
\* constructor returned Err) or "dropped"; val is the value it stores; arc
\* the Arc it points to (Windows); existed whether the pid it was built
\* from was a process at that time (TRUE for the other constructors).
NoHandle == [st |-> "none", val |-> 0, arc |-> 0, existed |-> TRUE]
NoArc == [raw |-> 0, strong |-> 0]

(* --------------------------- call records ----------------------------- *)
\* One copy_address call of a thread: its arguments (h: the handle used,
\* id: the value the handle stores, addr, len), its buffer, its position pc
\* and its locals (lock, pos, ret, err).  Kept beside them, for stating the
\* properties: tgt, the process the handle stood for when the call began;
\* log, the OS requests issued; att, wt, io, det, what the kernel answered
\* to the attach, the wait, the read and the detach; n, the bytes the
\* kernel transferred; clean, whether no other call overlapped this one;
\* fb, what the /proc/<pid>/mem route answered; was, while the call runs,
\* the target's state when it began (whether it lived, who traced it,
\* whether it was stopped).
NoWorld == [live |-> FALSE, tracer |-> "none", stopped |-> FALSE]

IdleCall ==
    [pc |-> "idle", h |-> 0, id |-> 0, tgt |-> 0, addr |-> 0, len |-> 0,
     buf |-> <<>>, log |-> <<>>, ret |-> "none", err |-> "", n |-> 0, pos |-> 0,
     att |-> "none", wt |-> "none", lock |-> "none", io |-> "none",
     det |-> "none", clean |-> TRUE, fb |-> "none", was |-> NoWorld]

Issued(c, q) == \E i \in 1..Len(c.log) : c.log[i] = q
Count(c, q) == Cardinality({i \in 1..Len(c.log) : c.log[i] = q})

InCall(t) == call[t].pc \notin {"idle", "done"}

Init ==
    /\ os \in OSes
    /\ procs = {SelfPid, ChildPid}
    /\ env \in EnvsOf(os)
    /\ req \in [addr : StartAddrs, len : Lens]
    /\ tracer = [p \in Pids |-> IF p = ChildPid THEN env.ext ELSE "none"]
    /\ stopped = [p \in Pids |-> p = ChildPid /\ env.ext # "none"]
    /\ hs = [h \in HandleIds |-> NoHandle]
    /\ arcs = [h \in HandleIds |-> NoArc]
    /\ kopen = [r \in Raws |-> IF os = "windows" /\ r = ChildRaw THEN ChildPid ELSE 0]
    /\ kcloses = [r \in Raws |-> 0]
    /\ child = "live"
    /\ call = [t \in Threads |-> IdleCall]
    /\ fds = {}

(* ------------------------ handle acquisition -------------------------- *)
\* The slot a newly built ProcessHandle goes to.
FreeSlot(h) == hs[h].st = "none" /\ \A g \in HandleIds : g < h => hs[g].st # "none"

\* mach port name of a task; MACH_PORT_NULL is 0.
TaskPort(pid) == 100 + pid
PidOfPort(port) == port - 100

\* macOS task_for_pid(): the caller's own task without asking the kernel,
\* else the kernel's lookup, which fails for a pid that is no process or
\* without the privilege.
TaskForPid(pid) ==
    IF pid = SelfPid THEN [ok |-> TRUE, val |-> TaskPort(SelfPid)]
    ELSE IF pid \in procs /\ env.perm THEN [ok |-> TRUE, val |-> TaskPort(pid)]
    ELSE [ok |-> FALSE, val |-> 0]

\* kernel: OpenProcess(PROCESS_VM_READ, 0, pid) for the slot h.
KernelOpenProcess(h, pid) == IF pid \in procs THEN h ELSE NullHandle

\* (variant: the null handle is not checked for)
OpenProcessUnchecked(handle) == TRUE

\* windows try_from(pid): a null handle is the failure.
OpenProcessOk(handle) == handle # NullHandle

\* What try_from(pid) yields on each platform: ok, and the stored value.
TryFromPidResult(h, pid) ==
    CASE os \in {"linux", "freebsd"} -> [ok |-> TRUE, val |-> pid]
      [] os = "macos" -> TaskForPid(pid)
      [] os = "windows" ->
            LET handle == KernelOpenProcess(h, pid)
            IN  [ok |-> OpenProcessOk(handle), val |-> handle]

\* ProcessHandle::try_from(pid)
TryFromPid(h, pid) ==
    /\ FreeSlot(h)
    /\ LET r == TryFromPidResult(h, pid)
       IN  /\ hs' = [hs EXCEPT ![h] =
                        [st |-> IF r.ok THEN "ok" ELSE "err",
                         val |-> IF r.ok THEN r.val ELSE 0,
                         arc |-> IF os = "windows" /\ r.ok THEN h ELSE 0,
                         existed |-> pid \in procs]]
           /\ IF os = "windows" /\ r.ok
                 THEN /\ arcs' = [arcs EXCEPT ![h] = [raw |-> r.val, strong |-> 1]]
                      /\ kopen' = [kopen EXCEPT ![r.val] = pid]
                 ELSE UNCHANGED <<arcs, kopen>>
    /\ UNCHANGED <<os, procs, env, req, tracer, stopped, kcloses, child, call, fds>>

\* ProcessHandle::try_from(&child): the pid route everywhere but on Windows,
\* where the Child's own raw handle is wrapped.
TryFromChild(h) ==
    /\ FreeSlot(h)
    /\ child = "live"
    /\ IF os = "windows"
          THEN /\ hs' = [hs EXCEPT ![h] =
                           [st |-> "ok", val |-> ChildRaw, arc |-> h,
                            existed |-> TRUE]]
               /\ arcs' = [arcs EXCEPT ![h] = [raw |-> ChildRaw, strong |-> 1]]
          ELSE /\ LET r == TryFromPidResult(h, ChildPid)
                  IN  hs' = [hs EXCEPT ![h] =
                               [st |-> IF r.ok THEN "ok" ELSE "err",
                                val |-> IF r.ok THEN r.val ELSE 0, arc |-> 0,
                                existed |-> ChildPid \in procs]]
               /\ UNCHANGED arcs
    /\ UNCHANGED <<os, procs, env, req, tracer, stopped, kopen, kcloses, child, call, fds>>

\* ProcessHandle::from(raw) (Windows): the caller hands over a handle it
\* opened itself for the child.
FromRaw(h) ==
    /\ os = "windows"
    /\ FreeSlot(h)
    /\ ChildPid \in procs
    /\ hs' = [hs EXCEPT ![h] = [st |-> "ok", val |-> h, arc |-> h,
                                existed |-> TRUE]]
    /\ arcs' = [arcs EXCEPT ![h] = [raw |-> h, strong |-> 1]]
    /\ kopen' = [kopen EXCEPT ![h] = ChildPid]
    /\ UNCHANGED <<os, procs, env, req, tracer, stopped, kcloses, child, call, fds>>

\* #[derive(Clone)]: a copy of the stored value; on Windows the Arc's strong
\* count goes up.
Clone(h, g) ==
    /\ hs[h].st = "ok"
    /\ FreeSlot(g)
    /\ hs' = [hs EXCEPT ![g] = hs[h]]
    /\ arcs' = IF os = "windows"
                  THEN [arcs EXCEPT ![hs[h].arc].strong = @ + 1]
                  ELSE arcs
    /\ UNCHANGED <<os, procs, env, req, tracer, stopped, kopen, kcloses, child, call, fds>>


\* kernel: CloseHandle(raw).  Every call is counted; the handle is closed
\* from the first one on.
CloseHandle(raw) ==
    /\ kopen' = [kopen EXCEPT ![raw] = 0]
    /\ kcloses' = [kcloses EXCEPT ![raw] = @ + 1]

\* Arc::drop: the inner value is dropped when the count reaches zero.
LastRef(strong) == strong = 1

\* Dropping a ProcessHandle no call is borrowing.  Only the Windows handle
\* owns anything: the last drop of an Arc runs Drop for ProcessHandleInner.
\* Elsewhere a handle is a plain integer and dropping it is no step.
Drop(h) ==
    /\ os = "windows"
    /\ hs[h].st = "ok"
    /\ \A t \in Threads : InCall(t) => call[t].h # h
    /\ hs' = [hs EXCEPT ![h].st = "dropped"]
    /\ arcs' = [arcs EXCEPT ![hs[h].arc].strong = @ - 1]
    /\ IF LastRef(arcs[hs[h].arc].strong)
          THEN CloseHandle(arcs[hs[h].arc].raw)
          ELSE UNCHANGED <<kopen, kcloses>>
    /\ UNCHANGED <<os, procs, env, req, tracer, stopped, child, call, fds>>

\* The spawned std::process::Child goes out of scope.  On Windows it owns
\* the raw handle as_raw_handle() lent out and closes it; elsewhere a Child
\* owns nothing a read depends on, and the step is left out.
DropChild ==
    /\ os = "windows"
    /\ child = "live"
    /\ child' = "dropped"
    /\ CloseHandle(ChildRaw)
    /\ UNCHANGED <<os, procs, env, req, tracer, stopped, hs, arcs, call, fds>>

\* environment: the child process exits or is killed.  A trace of it ends
\* with it.
Kill ==
    /\ ChildPid \in procs
    /\ procs' = procs \ {ChildPid}
    /\ tracer' = [tracer EXCEPT ![ChildPid] = "none"]
    /\ stopped' = [stopped EXCEPT ![ChildPid] = FALSE]
    /\ UNCHANGED <<os, env, req, hs, arcs, kopen, kcloses, child, call, fds>>

(* ---------------------------- copy_address ---------------------------- *)
\* The process a stored handle value stands for (0: none, a closed handle).
ProcessOf(val) ==
    CASE os \in {"linux", "freebsd"} -> val
      [] os = "macos" -> PidOfPort(val)
      [] os = "windows" -> kopen[val]

\* The state of the process pid as the operating system holds it.
WorldOf(pid) ==
    IF pid \in Pids
       THEN [live |-> pid \in procs, tracer |-> tracer[pid],
             stopped |-> stopped[pid]]
       ELSE NoWorld

\* The convenience function copy_address(addr, length, source) allocates
\* vec![0; length] and calls source.copy_address(addr, &mut copy).  The
\* second thread is used for calls that overlap one of the first, on the
\* platforms where a call is more than one OS request (on macOS and Windows
\* a call is a single request, and two calls can only follow each other).
StartCall(t, h) ==
    /\ ~InCall(t)
    /\ t = 2 => InCall(1) /\ os \in {"linux", "freebsd"}
    /\ hs[h].st = "ok"
    /\ call' = [u \in Threads |->
                  IF u = t
                     THEN [IdleCall EXCEPT !.pc = "entry", !.h = h, !.id = hs[h].val,
                                           !.tgt = ProcessOf(hs[h].val),
                                           !.addr = req.addr, !.len = req.len,
                                           !.buf = NewVec(req.len),
                                           !.was = WorldOf(ProcessOf(hs[h].val)),
                                           !.clean = \A v \in Threads : ~InCall(v)]
                     ELSE IF InCall(u) THEN [call[u] EXCEPT !.clean = FALSE]
                     ELSE call[u]]
    /\ UNCHANGED <<os, procs, env, req, tracer, stopped, hs, arcs, kopen, kcloses,
                   child, fds>>

\* (variant: an error of the backend is swallowed and the vector returned)
CopyAddressValueAlways(c) == [ok |-> TRUE, vec |-> c.buf, err |-> ""]

\* What the convenience function hands back: the filled vector, or the
\* backend's error and no vector.
CopyAddressValue(c) ==
    IF c.ret = "Ok" THEN [ok |-> TRUE, vec |-> c.buf, err |-> ""]
    ELSE [ok |-> FALSE, vec |-> <<>>, err |-> c.err]

\* A call returns r (and the errno e with an Err); what it met at its start
\* is kept no longer.
Return(c, r, e) ==
    [c EXCEPT !.pc = "done", !.ret = r, !.err = e, !.was = NoWorld]

(* ------------------------------- Linux -------------------------------- *)
ENOSYS == "ENOSYS"
EPERM == "EPERM"

LocalIov(buf) == [iov_len |-> Len(buf)]

\* (variant: the remote vector does not start at addr)
RemoteIovNoBase(addr, buf) == [iov_base |-> 0, iov_len |-> Len(buf)]

RemoteIov(addr, buf) == [iov_base |-> addr, iov_len |-> Len(buf)]

\* kernel: process_vm_readv(pid, local, 1, remote, 1, 0).  -1 and an errno,
\* or the number of bytes transferred, which is short when the range runs
\* into an unmapped page after at least one byte was copied.
KernelVmReadv(pid, local, remote) ==
    LET want == Min(local.iov_len, remote.iov_len)
        k == MappedPrefix(remote.iov_base, want)
    IN  CASE env.vmrv # "ok" -> [res |-> -1, errno |-> env.vmrv, n |-> 0]
          [] env.vmrv = "ok" /\ want = 0 -> [res |-> 0, errno |-> "", n |-> 0]
          [] env.vmrv = "ok" /\ want > 0 /\ pid \notin procs ->
                [res |-> -1, errno |-> "ESRCH", n |-> 0]
          [] env.vmrv = "ok" /\ want > 0 /\ pid \in procs /\ k = 0 ->
                [res |-> -1, errno |-> "EFAULT", n |-> 0]
          [] OTHER -> [res |-> k, errno |-> "", n |-> k]

\* (variant: every errno leads to /proc/<pid>/mem)
VmReadvBranchAnyErrno(result, errno) == IF result = -1 THEN "fallback" ELSE "Ok"

\* What copy_address does with the result of process_vm_readv.
VmReadvBranch(result, errno) ==
    IF result = -1
       THEN IF errno \in {ENOSYS, EPERM} THEN "fallback" ELSE "Err"
       ELSE "Ok"

ProcessVmReadv(t) ==
    LET c == call[t]
        remote_iov == RemoteIov(c.addr, c.buf)
        r == KernelVmReadv(c.id, LocalIov(c.buf), remote_iov)
        b == VmReadvBranch(r.res, r.errno)
        c1 == [c EXCEPT !.log = Append(@, "process_vm_readv"),
                        !.buf = Fill(@, r.n, c.id, remote_iov.iov_base), !.n = r.n,
                        !.io = IF r.res = -1 THEN r.errno ELSE "Ok"]
    IN  /\ os = "linux"
        /\ c.pc = "entry"
        /\ call' = [call EXCEPT ![t] =
                       CASE b = "Ok" -> Return(c1, "Ok", "")
                         [] b = "fallback" -> [c1 EXCEPT !.pc = "open"]
                         [] b = "Err" -> Return(c1, "Err", r.errno)]
        /\ UNCHANGED <<os, procs, env, req, tracer, stopped, hs, arcs, kopen, kcloses,
                       child, fds>>

\* format!("/proc/{}/mem", pid), and the kernel's reading of such a path.
ProcMemPath(pid) == <<"proc", pid, "mem">>
PathPid(path) == path[2]

\* kernel: open(path) of a /proc/<pid>/mem.
KernelOpen(path) ==
    IF PathPid(path) \notin procs THEN "ENOENT"
    ELSE IF ~env.procmem THEN "EACCES"
    ELSE "Ok"

\* The descriptors of /proc/<pid>/mem the process holds open, each named by
\* the call that opened it.  File::open adds one; the File going out of
\* scope closes it.
OpenFile(open, t) == open \cup {t}

\* (variant: the descriptor is kept open)
CloseFileNever(open, t) == open

CloseFile(open, t) == open \ {t}

\* fs::File::open(..)?
ProcMemOpen(t) ==
    LET c == call[t]
        r == KernelOpen(ProcMemPath(c.id))
        c1 == [c EXCEPT !.log = Append(@, "open")]
    IN  /\ os = "linux"
        /\ c.pc = "open"
        /\ IF r = "Ok"
              THEN /\ call' = [call EXCEPT ![t] = [c1 EXCEPT !.pc = "seek"]]
                   /\ fds' = OpenFile(fds, t)
              ELSE /\ call' = [call EXCEPT ![t] =
                                  Return([c1 EXCEPT !.fb = r], "Err", r)]
                   /\ UNCHANGED fds
        /\ UNCHANGED <<os, procs, env, req, tracer, stopped, hs, arcs, kopen, kcloses,
                       child>>

\* procmem.seek(SeekFrom::Start(addr))?: the file position becomes addr.
SeekPos(addr) == addr

\* kernel: lseek(fd, pos, SEEK_SET).
KernelLseek(pos) == IF env.seek THEN "Ok" ELSE "EINVAL"

\* The seek; when it fails `?` returns its error and the File goes out of
\* scope.
ProcMemSeek(t) ==
    LET c == call[t]
        r == KernelLseek(SeekPos(c.addr))
        c1 == [c EXCEPT !.log = Append(@, "lseek")]
    IN  /\ os = "linux"
        /\ c.pc = "seek"
        /\ IF r = "Ok"
              THEN /\ call' = [call EXCEPT ![t] =
                                  [c1 EXCEPT !.pc = "read", !.pos = SeekPos(c.addr)]]
                   /\ UNCHANGED fds
              ELSE /\ call' = [call EXCEPT ![t] =
                                  Return([c1 EXCEPT !.fb = r], "Err", r)]
                   /\ fds' = CloseFile(fds, t)
        /\ UNCHANGED <<os, procs, env, req, tracer, stopped, hs, arcs, kopen, kcloses,
                       child>>

\* procmem.read_exact(buf) from the position pos: reads until the buffer is
\* full; a read of an exited process returns 0 (UnexpectedEof), a read at an
\* unmapped address fails with EIO.  k is what was read before that.
ReadExact(pid, pos, len) ==
    LET k == IF pid \in procs THEN MappedPrefix(pos, len) ELSE 0
    IN  IF k = len THEN [ret |-> "Ok", err |-> "", n |-> k]
        ELSE IF pid \notin procs THEN [ret |-> "Err", err |-> "EOF", n |-> k]
        ELSE [ret |-> "Err", err |-> "EIO", n |-> k]

\* The read, and the File going out of scope: its descriptor is closed.
ProcMemReadExact(t) ==
    LET c == call[t]
        r == ReadExact(c.id, c.pos, Len(c.buf))
        c1 == [c EXCEPT !.log = IF Len(c.buf) = 0 THEN @ ELSE Append(@, "read"),
                        !.buf = Fill(@, r.n, c.id, c.pos), !.n = r.n,
                        !.fb = IF r.ret = "Ok" THEN "Ok" ELSE r.err]
    IN  /\ os = "linux"
        /\ c.pc = "read"
        /\ call' = [call EXCEPT ![t] = Return(c1, r.ret, r.err)]
        /\ fds' = CloseFile(fds, t)
        /\ UNCHANGED <<os, procs, env, req, tracer, stopped, hs, arcs, kopen, kcloses,
                       child>>

(* ------------------------------- macOS -------------------------------- *)
KERN_SUCCESS == "KERN_SUCCESS"

\* kernel: vm_read_overwrite(task, addr, size, data, &out_size): the
\* outcomes it can have.  A live task whose range is mapped is read in
\* full.  Otherwise the call fails leaving out_size as it was (want), or
\* fails or reports success after k < size bytes (a silent truncation).
KernelVmReadOverwrite(port, addr, size, want) ==
    LET k == IF PidOfPort(port) \in procs THEN MappedPrefix(addr, size) ELSE 0
    IN  IF PidOfPort(port) \in procs /\ k = size
           THEN {[kr |-> KERN_SUCCESS, out |-> size, n |-> size]}
           ELSE {[kr |-> "KERN_FAILURE", out |-> want, n |-> 0]}
                \cup (IF k < size
                         THEN {[kr |-> "KERN_FAILURE", out |-> k, n |-> k],
                               [kr |-> KERN_SUCCESS, out |-> k, n |-> k]}
                         ELSE {})

\* (variant: the kernel status is looked at before the byte count)
VmReadBranchStatusFirst(result, read_len, len) ==
    IF result # KERN_SUCCESS THEN [ret |-> "Err", err |-> "KERN"]
    ELSE IF read_len # len THEN [ret |-> "Err", err |-> "MISMATCH"]
    ELSE [ret |-> "Ok", err |-> ""]

\* What copy_address does with the two results of vm_read_overwrite.
VmReadBranch(result, read_len, len) ==
    IF read_len # len THEN [ret |-> "Err", err |-> "MISMATCH"]
    ELSE IF result # KERN_SUCCESS THEN [ret |-> "Err", err |-> "KERN"]
    ELSE [ret |-> "Ok", err |-> ""]

VmReadOverwrite(t) ==
    LET c == call[t]
    IN  /\ os = "macos"
        /\ c.pc = "entry"
        /\ \E r \in KernelVmReadOverwrite(c.id, c.addr, Len(c.buf), Len(c.buf)) :
              LET b == VmReadBranch(r.kr, r.out, Len(c.buf))
                  c1 == [c EXCEPT !.log = Append(@, "vm_read_overwrite"),
                                  !.buf = Fill(@, r.n, PidOfPort(c.id), c.addr),
                                  !.n = r.out, !.io = r.kr]
              IN  call' = [call EXCEPT ![t] = Return(c1, b.ret, b.err)]
        /\ UNCHANGED <<os, procs, env, req, tracer, stopped, hs, arcs, kopen, kcloses,
                       child, fds>>

(* ------------------------------ FreeBSD ------------------------------- *)
EBUSY == "EBUSY"

\* kernel: ptrace(PT_ATTACH, pid).  A process that is traced already is
\* busy; a success makes the caller's process the tracer.
KernelPtAttach(pid) ==
    IF pid \notin procs THEN [res |-> -1, errno |-> "ESRCH"]
    ELSE IF pid = SelfPid THEN [res |-> -1, errno |-> "EINVAL"]
    ELSE IF tracer[pid] # "none" THEN [res |-> -1, errno |-> EBUSY]
    ELSE [res |-> 0, errno |-> ""]

\* ptrace_attach, after PT_ATTACH returned: Ok(NoRelease), Err, or go on to
\* wait for the stop.
AttachBranch(attach_status, errno) ==
    IF attach_status = -1
       THEN IF errno = EBUSY THEN "NoRelease" ELSE "Err"
       ELSE "wait"

PtAttach(t) ==
    LET c == call[t]
        r == KernelPtAttach(c.id)
        b == AttachBranch(r.res, r.errno)
        c1 == [c EXCEPT !.log = Append(@, "PT_ATTACH"),
                        !.att = IF r.res = 0 THEN "ok" ELSE r.errno]
    IN  /\ os = "freebsd"
        /\ c.pc = "entry"
        /\ call' = [call EXCEPT ![t] =
                       CASE b = "wait" -> [c1 EXCEPT !.pc = "wait"]
                         [] b = "NoRelease" -> [c1 EXCEPT !.pc = "io", !.lock = b]
                         [] b = "Err" -> Return(c1, "Err", r.errno)]
        /\ tracer' = IF r.res = 0 THEN [tracer EXCEPT ![c.id] = "self"] ELSE tracer
        /\ UNCHANGED <<os, procs, env, req, stopped, hs, arcs, kopen, kcloses, child,
                       fds>>

\* kernel: waitpid(pid, &status, 0) and WIFSTOPPED(status).  The wait is
\* interrupted by a signal (status stays 0), or reports the exit of a
\* target that died, or the stop of the attached target.
KernelWaitPid(pid) ==
    IF env.intr THEN "intr"
    ELSE IF pid \notin procs THEN "exited"
    ELSE "stopped"

\* (variant: the wait status is not looked at)
WaitBranchUnchecked(isStopped) == "Release"

\* ptrace_attach, after the wait.
WaitBranch(isStopped) == IF ~isStopped THEN "Err" ELSE "Release"

WaitPid(t) ==
    LET c == call[t]
        w == KernelWaitPid(c.id)
        b == WaitBranch(w = "stopped")
        c1 == [c EXCEPT !.log = Append(@, "waitpid"), !.wt = w]
    IN  /\ os = "freebsd"
        /\ c.pc = "wait"
        /\ call' = [call EXCEPT ![t] =
                       IF b = "Release" THEN [c1 EXCEPT !.pc = "io", !.lock = b]
                       ELSE Return(c1, "Err", w)]
        /\ stopped' = IF w = "stopped" THEN [stopped EXCEPT ![c.id] = TRUE]
                      ELSE stopped
        /\ UNCHANGED <<os, procs, env, req, tracer, hs, arcs, kopen, kcloses, child,
                       fds>>

\* kernel: ptrace(PT_IO, pid, {PIOD_READ_D, offs, addr, len}).  Only the
\* tracer may ask, and only of a target whose stop it has waited for; a
\* range that is not mapped in full is a fault.
KernelPtIo(pid, offs, len) ==
    IF pid \notin procs THEN [res |-> -1, errno |-> "ESRCH", n |-> 0]
    ELSE IF tracer[pid] = "none" THEN [res |-> -1, errno |-> "EPERM", n |-> 0]
    ELSE IF tracer[pid] = "foreign" \/ ~stopped[pid]
            THEN [res |-> -1, errno |-> EBUSY, n |-> 0]
    ELSE IF MappedPrefix(offs, len) < len
            THEN [res |-> -1, errno |-> "EFAULT", n |-> MappedPrefix(offs, len)]
    ELSE [res |-> 0, errno |-> "", n |-> len]

\* ptrace_io / ptrace_detach: -1 is the error.
PtraceResult(result) == IF result = -1 THEN "Err" ELSE "Ok"

\* (variant: detaches whatever the lock state)
ShouldDetachAlways(lock) == TRUE

\* let should_detach = ptrace_attach(..)? == PtraceLockState::Release
ShouldDetach(lock) == lock = "Release"

PtIo(t) ==
    LET c == call[t]
        r == KernelPtIo(c.id, c.addr, Len(c.buf))
        b == PtraceResult(r.res)
        c1 == [c EXCEPT !.log = Append(@, "PT_IO"),
                        !.buf = Fill(@, r.n, c.id, c.addr), !.n = r.n,
                        !.io = IF r.res = -1 THEN r.errno ELSE "Ok",
                        !.ret = b, !.err = r.errno]
    IN  /\ os = "freebsd"
        /\ c.pc = "io"
        /\ call' = [call EXCEPT ![t] =
                       IF ShouldDetach(c.lock) THEN [c1 EXCEPT !.pc = "detach"]
                       ELSE Return(c1, c1.ret, c1.err)]
        /\ UNCHANGED <<os, procs, env, req, tracer, stopped, hs, arcs, kopen, kcloses,
                       child, fds>>

\* kernel: ptrace(PT_DETACH, pid).
KernelPtDetach(pid) ==
    IF pid \notin procs THEN [res |-> -1, errno |-> "ESRCH"]
    ELSE IF tracer[pid] = "none" THEN [res |-> -1, errno |-> "EPERM"]
    ELSE IF tracer[pid] = "foreign" THEN [res |-> -1, errno |-> EBUSY]
    ELSE [res |-> 0, errno |-> ""]

\* (variant: the result of the detach is dropped)
FinalResultOfRead(ioRet, ioErr, detRet, detErr) == [ret |-> ioRet, err |-> ioErr]

\* ptrace_detach(..)? and then result: the detach error, else the read's.
FinalResult(ioRet, ioErr, detRet, detErr) ==
    IF detRet = "Err" THEN [ret |-> "Err", err |-> detErr]
    ELSE [ret |-> ioRet, err |-> ioErr]

PtDetach(t) ==
    LET c == call[t]
        r == KernelPtDetach(c.id)
        b == PtraceResult(r.res)
        f == FinalResult(c.ret, c.err, b, r.errno)
        c1 == [c EXCEPT !.log = Append(@, "PT_DETACH"),
                        !.det = IF r.res = -1 THEN r.errno ELSE "Ok"]
    IN  /\ os = "freebsd"
        /\ c.pc = "detach"
        /\ call' = [call EXCEPT ![t] = Return(c1, f.ret, f.err)]
        /\ IF r.res = 0
              THEN /\ tracer' = [tracer EXCEPT ![c.id] = "none"]
                   /\ stopped' = [stopped EXCEPT ![c.id] = FALSE]
              ELSE UNCHANGED <<tracer, stopped>>
        /\ UNCHANGED <<os, procs, env, req, hs, arcs, kopen, kcloses, child, fds>>

(* ------------------------------ Windows ------------------------------- *)
\* kernel: ReadProcessMemory(handle, addr, buf, size, NULL): nonzero only
\* when the handle is open, its process lives and the whole range was read.
KernelReadProcessMemory(handle, addr, size) ==
    IF handle \notin Raws \/ kopen[handle] = 0
       THEN [res |-> 0, errno |-> "ERROR_INVALID_HANDLE", n |-> 0]
    ELSE IF kopen[handle] \notin procs \/ MappedPrefix(addr, size) < size
       THEN [res |-> 0, errno |-> "ERROR_PARTIAL_COPY", n |-> 0]
    ELSE [res |-> 1, errno |-> "", n |-> size]

\* if buf.len() == 0 { return Ok(()) }
ZeroLength(buf) == Len(buf) = 0

\* (variant: the result is not looked at)
ReadProcessMemoryBranchUnchecked(result) == "Ok"

\* ReadProcessMemory(..) == 0 is the error.
ReadProcessMemoryBranch(result) == IF result = 0 THEN "Err" ELSE "Ok"

ReadProcessMemory(t) ==
    LET c == call[t]
        r == KernelReadProcessMemory(c.id, c.addr, Len(c.buf))
        b == ReadProcessMemoryBranch(r.res)
        c1 == [c EXCEPT !.log = Append(@, "ReadProcessMemory"),
                        !.buf = Fill(@, r.n, IF r.res = 0 THEN 0 ELSE kopen[c.id],
                                     c.addr),
                        !.n = r.n, !.io = IF r.res = 0 THEN r.errno ELSE "Ok"]
    IN  /\ os = "windows"
        /\ c.pc = "entry"
        /\ call' = [call EXCEPT ![t] =
                       IF ZeroLength(c.buf) THEN Return(c, "Ok", "")
                       ELSE Return(c1, b, r.errno)]
        /\ UNCHANGED <<os, procs, env, req, tracer, stopped, hs, arcs, kopen, kcloses,
                       child, fds>>

Next ==
    \/ \E h \in HandleIds, pid \in Pids : TryFromPid(h, pid)
    \/ \E h \in HandleIds : TryFromChild(h)
    \/ \E h \in HandleIds : FromRaw(h)
    \/ \E h, g \in HandleIds : Clone(h, g)
    \/ \E h \in HandleIds : Drop(h)
    \/ DropChild
    \/ Kill
    \/ \E t \in Threads, h \in HandleIds : StartCall(t, h)
    \/ \E t \in Threads : ProcessVmReadv(t)
    \/ \E t \in Threads : ProcMemOpen(t)
    \/ \E t \in Threads : ProcMemSeek(t)
    \/ \E t \in Threads : ProcMemReadExact(t)
    \/ \E t \in Threads : VmReadOverwrite(t)
    \/ \E t \in Threads : PtAttach(t)
    \/ \E t \in Threads : WaitPid(t)
    \/ \E t \in Threads : PtIo(t)
    \/ \E t \in Threads : PtDetach(t)
    \/ \E t \in Threads : ReadProcessMemory(t)

Spec == Init /\ [][Next]_vars


(* ============================ properties ============================== *)
Done(t) == call[t].pc = "done"

\* The bytes the process pid holds at [addr, addr + len).
Expected(pid, addr, len) == [i \in 1..len |-> Mem(pid, addr + i - 1)]

\* What the caller gets for what the kernel answered to the read.
ReadResultReturned(c) ==
    IF c.io = "Ok" THEN c.ret = "Ok" ELSE c.ret = "Err" /\ c.err = c.io

\* C1 (FreeBSD): PT_DETACH is issued only by a call whose own PT_ATTACH
\* succeeded and whose wait reported the target stopped.  A call whose
\* PT_ATTACH failed with EBUSY goes on to PT_IO, returns what the read
\* returned, and never issues PT_DETACH.
C1_DetachOnlyOwnLock ==
    os = "freebsd" =>
        \A t \in Threads :
            LET c == call[t]
            IN  /\ Issued(c, "PT_DETACH") => c.att = "ok" /\ c.wt = "stopped"
                /\ c.att = EBUSY =>
                      /\ c.pc \in {"io", "done"}
                      /\ ~Issued(c, "PT_DETACH")
                      /\ c.pc = "done" => Issued(c, "PT_IO") /\ ReadResultReturned(c)

\* C1 witness: a call that met EBUSY at the attach has returned a
\* successful read.
C1_Witness ==
    \E t \in Threads :
        /\ os = "freebsd" /\ Done(t)
        /\ call[t].att = EBUSY /\ call[t].io = "Ok" /\ call[t].ret = "Ok"
        /\ call[t].len > 0

\* C2 (every backend): a call returns Ok only when every byte of the buffer
\* was overwritten with the target's memory at [addr, addr + len); the
\* range is then mapped in full and no byte of vec![0; len] is left.
C2_OkMeansAllBytesRead ==
    \A t \in Threads :
        LET c == call[t]
        IN  Done(t) /\ c.ret = "Ok" =>
               /\ MappedPrefix(c.addr, c.len) = c.len
               /\ \E p \in Pids : c.buf = Expected(p, c.addr, c.len)

\* A target the read can reach: it lives, the range is mapped, and the
\* platform's way in is open (Linux: process_vm_readv works or, where it is
\* missing or filtered, /proc/<pid>/mem can be opened and sought; FreeBSD: nobody else
\* traces the target or contends for it during the call, and the wait is
\* not interrupted; Windows: the handle owns its kernel handle).
Readable(c) ==
    /\ c.tgt \in procs
    /\ MappedPrefix(c.addr, c.len) = c.len
    /\ os = "linux" => env.procmem /\ env.seek
    /\ os = "freebsd" => c.tgt # SelfPid /\ env.ext = "none" /\ ~env.intr
    /\ os = "windows" => c.id # ChildRaw

\* C3 (round trip): a read of a mapped range of a live, accessible target
\* succeeds and hands back exactly len bytes, each equal to the target's
\* byte at that address, for lengths below a page and spanning pages.
C3_RoundTrip ==
    \A t \in Threads :
        LET c == call[t]
        IN  Done(t) /\ Readable(c) /\ (os = "freebsd" => c.clean) =>
               /\ CopyAddressValue(c).ok
               /\ CopyAddressValue(c).vec = Expected(c.tgt, c.addr, c.len)
               /\ Len(CopyAddressValue(c).vec) = c.len

\* C3 witness: a read spanning more than a page, from the last mapped page
\* back, has returned the bytes of the child.
C3_Witness ==
    \E t \in Threads :
        /\ Done(t) /\ Readable(call[t]) /\ call[t].clean
        /\ call[t].tgt = ChildPid /\ call[t].len > PageSize
        /\ call[t].ret = "Ok"

\* C4 (Windows): a kernel handle wrapped by a ProcessHandle is closed exactly
\* once over the whole program, by the drop of the last clone: never more
\* than one CloseHandle of it by any owner, none while a clone lives, and
\* one once the clones of an Arc are all dropped.
C4_ClosedExactlyOnce ==
    os = "windows" =>
        \A a \in HandleIds :
            arcs[a].raw # 0 =>
               /\ kcloses[arcs[a].raw] <= 1
               /\ arcs[a].strong > 0 => kcloses[arcs[a].raw] = 0
               /\ arcs[a].strong = 0 => kcloses[arcs[a].raw] = 1

\* C5 (FreeBSD): when a call has returned, the trace it acquired with a
\* successful PT_ATTACH is no longer held: the call has issued PT_DETACH for
\* it (or the target is gone, and the trace with it).
C5_NoTraceLeft ==
    os = "freebsd" =>
        \A t \in Threads :
            LET c == call[t]
            IN  Done(t) /\ c.att = "ok" /\ c.id \in procs =>
                   Issued(c, "PT_DETACH")

\* C6 (FreeBSD): a call that attached and saw the target stopped issues
\* exactly one PT_DETACH, after its PT_IO, whatever the read returned; it
\* returns the detach error when the detach failed, else what the read
\* returned.
C6_DetachAfterRead ==
    os = "freebsd" =>
        \A t \in Threads :
            LET c == call[t]
            IN  /\ c.att = "ok" /\ c.wt = "stopped" /\ Done(t) =>
                      /\ c.log = <<"PT_ATTACH", "waitpid", "PT_IO", "PT_DETACH">>
                      /\ IF c.det # "Ok"
                            THEN c.ret = "Err" /\ c.err = c.det
                            ELSE ReadResultReturned(c)
                /\ Count(c, "PT_DETACH") <= 1
                /\ Issued(c, "PT_DETACH") => Issued(c, "PT_IO")

\* C6 witness: a read that succeeded was followed by a detach that failed,
\* and the call returned the detach error.
C6_Witness ==
    \E t \in Threads :
        /\ os = "freebsd" /\ Done(t)
        /\ call[t].io = "Ok" /\ call[t].det \notin {"none", "Ok"}
        /\ call[t].ret = "Err"

\* C7 (every backend): a read of length zero returns Ok without issuing any
\* OS request.
C7_ZeroLengthNoOp ==
    \A t \in Threads :
        Done(t) /\ call[t].len = 0 => call[t].ret = "Ok" /\ call[t].log = <<>>

\* C8 as stated (every backend): try_from(pid) for a pid that is no process
\* returns an error and no handle.
C8_NoHandleForNoProcess ==
    \A h \in HandleIds :
        hs[h].st # "none" /\ ~hs[h].existed => hs[h].st = "err"

\* C8 amended: on macOS and Windows try_from(pid) for a pid that is no
\* process returns an error and no handle; on Linux and FreeBSD it returns
\* a handle storing the pid.
C8_NoHandleWhereLookedUp ==
    \A h \in HandleIds :
        hs[h].st # "none" /\ ~hs[h].existed =>
            IF os \in {"macos", "windows"}
               THEN hs[h].st = "err" /\ hs[h].val = 0
               ELSE hs[h].st = "ok" /\ hs[h].val = ChildPid

\* C8 witness: OpenProcess was asked for a pid that is no process.
C8_Witness ==
    \E h \in HandleIds : os = "windows" /\ hs[h].st = "err" /\ ~hs[h].existed

\* C9 (FreeBSD): PT_IO is issued only after a PT_ATTACH that succeeded and a
\* wait that reported the stop, or after a PT_ATTACH that failed with EBUSY.
\* After any other attach error, or a wait that did not report the stop, the
\* call has returned an error and issued neither PT_IO nor PT_DETACH.
C9_NoReadWithoutStop ==
    os = "freebsd" =>
        \A t \in Threads :
            LET c == call[t]
            IN  /\ Issued(c, "PT_IO") =>
                      (c.att = "ok" /\ c.wt = "stopped") \/ c.att = EBUSY
                /\ \/ c.att \notin {"none", "ok", EBUSY}
                   \/ c.att = "ok" /\ c.wt \notin {"none", "stopped"}
                   => /\ Done(t) /\ c.ret = "Err"
                      /\ ~Issued(c, "PT_IO") /\ ~Issued(c, "PT_DETACH")

\* C9 witness: the attach succeeded and the wait did not report the stop.
C9_Witness ==
    \E t \in Threads :
        /\ os = "freebsd" /\ Done(t)
        /\ call[t].att = "ok" /\ call[t].wt \notin {"none", "stopped"}

\* C10 (FreeBSD): of two overlapping calls on one readable target, the one
\* that met EBUSY issues its PT_IO while the other holds the target attached
\* and stopped, and neither call fails because of the other.
C10_RaceTolerated ==
    os = "freebsd" =>
        \A t \in Threads :
            LET c == call[t]
            IN  Readable(c) /\ ~c.clean =>
                   /\ c.att = EBUSY /\ Issued(c, "PT_IO") =>
                         c.io \notin {"EPERM", EBUSY}
                   /\ Done(t) => c.ret = "Ok"

\* C11 (Linux): the /proc/<pid>/mem route (open, seek to addr, read of the
\* whole buffer) is taken exactly when process_vm_readv failed with ENOSYS or
\* EPERM.  After any other error the call has returned that error and issued
\* nothing else; after a process_vm_readv that did not fail the call has
\* returned Ok and issued nothing else; when the route is taken the call
\* returns what the route answered.
C11_FallbackIffEnosysEperm ==
    os = "linux" =>
        \A t \in Threads :
            LET c == call[t]
                fallback == c.io \in {ENOSYS, EPERM}
            IN  /\ Issued(c, "open") => fallback
                /\ fallback =>
                      /\ c.pc \in {"open", "seek", "read", "done"}
                      /\ c.pc # "open" => c.log[2] = "open"
                      /\ c.pc = "read" =>
                            c.log = <<"process_vm_readv", "open", "lseek">>
                            /\ c.pos = c.addr
                      /\ Done(t) =>
                            /\ c.fb # "none"
                            /\ IF c.fb = "Ok" THEN c.ret = "Ok"
                                              ELSE c.ret = "Err" /\ c.err = c.fb
                            /\ c.ret = "Ok" => c.n = Len(c.buf)
                /\ Issued(c, "process_vm_readv") /\ ~fallback =>
                      /\ Done(t) /\ c.log = <<"process_vm_readv">>
                      /\ ReadResultReturned(c)

\* C11 witness: process_vm_readv failed with ENOSYS or EPERM and the call
\* took the /proc/<pid>/mem route to a successful end.
C11_Witness ==
    /\ os = "linux"
    /\ \E t \in Threads :
          /\ Done(t) /\ call[t].io \in {ENOSYS, EPERM}
          /\ call[t].fb = "Ok" /\ call[t].len > 0

\* C12 (macOS): a call returns Ok exactly when vm_read_overwrite returned
\* KERN_SUCCESS and reported as many bytes as the buffer holds.  A short
\* count is an error also with KERN_SUCCESS, and with both a short count and
\* a failure status the size-mismatch error is the one returned.
C12_OkIffSuccessAndFullCount ==
    os = "macos" =>
        \A t \in Threads :
            LET c == call[t]
            IN  Done(t) =>
                   /\ c.ret = "Ok" <=> c.io = KERN_SUCCESS /\ c.n = Len(c.buf)
                   /\ c.n # Len(c.buf) => c.ret = "Err" /\ c.err = "MISMATCH"
                   /\ c.n = Len(c.buf) /\ c.io # KERN_SUCCESS =>
                         c.ret = "Err" /\ c.err = "KERN"

\* C12 witness: the kernel reported a failure and a short count at once.
C12_Witness ==
    \E t \in Threads :
        /\ os = "macos" /\ Done(t)
        /\ call[t].io # KERN_SUCCESS /\ call[t].n # call[t].len
        /\ call[t].err = "MISMATCH"

\* The OS requests one call may issue, in order, on each platform.
RequestOrder(o) ==
    CASE o = "linux" -> {<<"process_vm_readv", "open", "lseek", "read">>}
      [] o = "macos" -> {<<"vm_read_overwrite">>}
      [] o = "freebsd" -> {<<"PT_ATTACH", "waitpid", "PT_IO", "PT_DETACH">>,
                           <<"PT_ATTACH", "PT_IO">>}
      [] o = "windows" -> {<<"ReadProcessMemory">>}

IsPrefix(s, q) == Len(s) <= Len(q) /\ s = SubSeq(q, 1, Len(s))

\* Whether a request of the call c failed with an error the code takes for
\* the end of the read (not the ENOSYS or EPERM of process_vm_readv, which
\* selects /proc/<pid>/mem, nor the EBUSY of PT_ATTACH, which selects the
\* read without a lock of its own).
Failed(c) ==
    \/ c.io \notin {"none", "Ok", KERN_SUCCESS, ENOSYS, EPERM}
    \/ os = "macos" /\ c.pc = "done" /\ c.n # Len(c.buf)
    \/ c.fb \notin {"none", "Ok"}
    \/ c.att \notin {"none", "ok", EBUSY}
    \/ c.wt \notin {"none", "stopped"}
    \/ c.det \notin {"none", "Ok"}

\* C13 (every backend): no request is repeated within a call: what a call
\* has issued is a prefix of its platform's sequence, so each primitive is
\* attempted at most once.  A failure ends the call: nothing but the
\* PT_DETACH that releases the call's own lock follows it, and the call
\* returns Err.  The convenience function then returns that error as it is
\* and no vector.
C13_NoRetry ==
    \A t \in Threads :
        LET c == call[t]
        IN  /\ \E q \in RequestOrder(os) : IsPrefix(c.log, q)
            /\ \A i, j \in 1..Len(c.log) : c.log[i] = c.log[j] => i = j
            /\ Failed(c) =>
                  /\ c.pc \in {"done", "detach"}
                  /\ c.pc = "detach" => c.io # "Ok" /\ c.ret = "Err"
                  /\ Done(t) =>
                        /\ c.ret = "Err"
                        /\ ~CopyAddressValue(c).ok
                        /\ CopyAddressValue(c).err = c.err
                        /\ CopyAddressValue(c).vec = <<>>

\* C13 witness: a read that failed after some bytes had arrived in the
\* buffer.
C13_Witness ==
    \E t \in Threads :
        /\ Done(t) /\ Failed(call[t]) /\ call[t].n > 0
        /\ \E i \in 1..Len(call[t].buf) : call[t].buf[i] # 0

\* What a call returns when nothing but the call itself acts between its
\* start and its return, as a function of the value the handle stores, the
\* request, and the state the target and the operating system were in when
\* the call began: the set of (ret, err) it may return.
OutcomesFrom(c) ==
    LET full == MappedPrefix(c.addr, c.len) = c.len
        Ok == {[ret |-> "Ok", err |-> ""]}
        Err(e) == {[ret |-> "Err", err |-> e]}
    IN  CASE os = "linux" ->
               IF env.vmrv = "ok"
                  THEN IF c.len = 0 THEN Ok
                       ELSE IF ~c.was.live THEN Err("ESRCH")
                       ELSE IF MappedPrefix(c.addr, c.len) = 0 THEN Err("EFAULT")
                       ELSE Ok
               ELSE IF ~c.was.live THEN Err("ENOENT")
               ELSE IF ~env.procmem THEN Err("EACCES")
               ELSE IF ~env.seek THEN Err("EINVAL")
               ELSE IF full THEN Ok
               ELSE Err("EIO")
          [] os = "macos" ->
               IF c.was.live /\ full THEN Ok
               ELSE IF c.len = 0 THEN Err("KERN")
               ELSE Err("KERN") \cup Err("MISMATCH")
          [] os = "freebsd" ->
               IF ~c.was.live THEN Err("ESRCH")
               ELSE IF c.id = SelfPid THEN Err("EINVAL")
               ELSE IF c.was.tracer = "none"
                       THEN IF env.intr THEN Err("intr")
                            ELSE IF full THEN Ok ELSE Err("EFAULT")
               ELSE IF c.was.tracer = "foreign" \/ ~c.was.stopped THEN Err(EBUSY)
               ELSE IF full THEN Ok ELSE Err("EFAULT")
          [] os = "windows" ->
               IF c.len = 0 THEN Ok
               ELSE IF c.tgt = 0 THEN Err("ERROR_INVALID_HANDLE")
               ELSE IF ~c.was.live \/ ~full THEN Err("ERROR_PARTIAL_COPY")
               ELSE Ok

\* Nothing but the call c itself has acted on its target since it began:
\* no other call overlapped it, the target did not exit, and the kernel
\* handle it reads through was not closed under it.
Undisturbed(c) ==
    /\ c.clean
    /\ c.tgt \in Pids => c.was.live = (c.tgt \in procs)
    /\ os = "windows" => kopen[c.id] = c.tgt

\* C14 (every backend): no step changes the value a constructed handle
\* stores (the pid, the task port, the Arc and the raw handle it wraps), so
\* after any reads through it or its clones a handle holds what it was built
\* with; and a call that returns undisturbed returns what the handle's
\* value, the request and the state of the target and the operating system
\* at its start determine, whatever calls went through the handle before.
C14_HandleUnchangedCallsIndependent ==
    [][/\ \A h \in HandleIds :
             hs[h].st # "none" =>
                /\ hs'[h].val = hs[h].val /\ hs'[h].arc = hs[h].arc
                /\ hs[h].arc # 0 => arcs'[hs[h].arc].raw = arcs[hs[h].arc].raw
       /\ \A t \in Threads :
             /\ InCall(t) => hs[call[t].h].val = call[t].id
             /\ InCall(t) /\ call'[t].pc = "done" /\ Undisturbed(call[t]) =>
                   [ret |-> call'[t].ret, err |-> call'[t].err]
                      \in OutcomesFrom(call[t])]_vars

\* C14 witness: after an earlier call through a handle has failed, a
\* later, undisturbed call through the same handle or a clone of it has
\* returned Ok.  (A record marked clean was begun while no call ran, so it
\* is later than the call of the second thread, which overlapped an earlier
\* one of the first.)
C14_Witness ==
    /\ Done(1) /\ Done(2)
    /\ call[1].clean /\ call[1].id = call[2].id
    /\ hs[call[1].h].val = call[1].id
    /\ call[2].ret = "Err" /\ call[1].ret = "Ok" /\ call[1].len > 0

\* C15 (Linux): a descriptor of /proc/<pid>/mem is open exactly while the
\* call that opened it is between its open and its return: every call that
\* seeks or reads has issued its own open, once, and when a call has
\* returned (after a failed open, a failed seek, a failed read or a success)
\* or has not reached its open, it holds no descriptor.
C15_DescriptorClosedOnReturn ==
    os = "linux" =>
        \A t \in Threads :
            LET c == call[t]
            IN  /\ t \in fds <=> c.pc \in {"seek", "read"}
                /\ t \in fds => Count(c, "open") = 1
                /\ Issued(c, "lseek") \/ Issued(c, "read") =>
                      c.log[2] = "open" /\ Count(c, "open") = 1
                /\ c.pc \in {"idle", "entry", "open", "done"} => t \notin fds

\* C15 witness: a call whose seek failed has returned, and no descriptor is
\* open.
C15_Witness ==
    \E t \in Threads :
        /\ os = "linux" /\ Done(t)
        /\ call[t].log = <<"process_vm_readv", "open", "lseek">>
        /\ call[t].ret = "Err" /\ fds = {}

\* C16 (Windows): the kernel handle a call passes to ReadProcessMemory is
\* open at that time: no ReadProcessMemory is answered with
\* ERROR_INVALID_HANDLE.
C16_ReadOnOpenHandle ==
    os = "windows" =>
        \A t \in Threads :
            Issued(call[t], "ReadProcessMemory") =>
                call[t].io # "ERROR_INVALID_HANDLE"

=============================================================================
